---- MODULE Spec2Model ----
(***************************************************************************)
(* Model of src/main.py: the crawl loop of start_telkom_crawl, the          *)
(* word-window chunker create_text_chunks, the classifier, cleaner and     *)
(* extractor of extract_telkom_data, and the batch loop of                 *)
(* generate_embeddings.                                                    *)
(*                                                                         *)
(* A URL is a record [netloc, path]; Chars gives the characters of a       *)
(* netloc so that str.endswith is computed on the characters.  A page is   *)
(* the sequence of the href values of its anchors, in document order.      *)
(***************************************************************************)
EXTENDS Integers, Sequences, FiniteSets, TLC

VARIABLES
    bucket_name,     \* BUCKET_NAME: "" when the environment variable is unset
    crawl_pc,        \* position of start_telkom_crawl
    urls_to_visit,   \* the queue (a Python list used with pop(0)/append)
    visited_urls,    \* the visited set
    pages_crawled,   \* counter of line 57
    response,        \* the JSON summary returned on line 91
    fetch_log,       \* history: the HTTP GETs issued, in order, with outcome
    enqueued,        \* history: every append to urls_to_visit, seed first
    blobs,           \* URLs whose markdown blob was uploaded
    failures,        \* number of failed calls (fetch or upload) so far
    delayed,         \* time.sleep(0.5) has run since the last GET
    content,         \* create_text_chunks: argument content (characters)
    chunk_size,      \* create_text_chunks: argument chunk_size
    overlap,         \* create_text_chunks: argument overlap
    words,           \* content.split()
    chunks,          \* the list under construction / returned
    start,           \* window start
    chunk_id,        \* next chunk id
    chunk_pc,        \* position of create_text_chunks
    doc,             \* extract_telkom_data: argument content (characters)
    content_type,    \* result['content_type']
    cleaned_content, \* clean_markdown_content(content)
    profile,         \* which extract_*_info function was applied
    structured_data, \* the keys of result['structured_data']
    text_chunks,     \* result['text_chunks']
    extract_pc,      \* position of extract_telkom_data
    clean_arg,       \* clean_markdown_content: the text given to the first call
    clean_once,      \* the result of the first call
    clean_twice,     \* the result of the call on the first result
    clean_pc,        \* position of the repeated cleaning
    rows,            \* generate_embeddings: the rows the query returned
    batch_idx,       \* index of the current batch's first row
    valid_rows,      \* the rows of the current batch that are embedded
    attempt,         \* loop variable of the retry loop
    all_embeddings,  \* chunk ids an embedding was stored for
    failed_chunks,   \* ids recorded as failed
    send_log,        \* history: every get_embeddings call
    embed_response,  \* the response of generate_embeddings
    embed_pc         \* position of generate_embeddings

crawlVars == <<bucket_name, crawl_pc, urls_to_visit, visited_urls, pages_crawled,
               response, fetch_log, enqueued, blobs, failures, delayed>>
chunkVars == <<content, chunk_size, overlap, words, chunks, start, chunk_id, chunk_pc>>
extractVars == <<doc, content_type, cleaned_content, profile, structured_data,
                 text_chunks, extract_pc>>
cleanVars == <<clean_arg, clean_once, clean_twice, clean_pc>>
embedVars == <<rows, batch_idx, valid_rows, attempt, all_embeddings, failed_chunks,
               send_log, embed_response, embed_pc>>
vars == <<crawlVars, chunkVars, extractVars, cleanVars, embedVars>>

\* What each subsystem leaves alone
notCrawlVars == <<chunkVars, extractVars, cleanVars, embedVars>>
notChunkVars == <<crawlVars, extractVars, cleanVars, embedVars>>
notExtractVars == <<crawlVars, chunkVars, cleanVars, embedVars>>
notCleanVars == <<crawlVars, chunkVars, extractVars, embedVars>>
notEmbedVars == <<crawlVars, chunkVars, extractVars, cleanVars>>

(***************************************************************************)
(* Bounds of the model.                                                    *)
(***************************************************************************)
MaxPages == 3
MaxLinks == 2
MaxFailures == 2
MaxChars == 8
MaxChunkSize == 3
MaxOverlap == 2
MaxChunks == 6
MaxPieces == 2
MaxMarkup == 3
MaxRows == 6

(***************************************************************************)
(* Generic helpers.                                                        *)
(***************************************************************************)
Range(s) == {s[i] : i \in 1..Len(s)}

Min(a, b) == IF a <= b THEN a ELSE b

Max(a, b) == IF a >= b THEN a ELSE b

SeqsUpTo(S, n) == UNION {[1..k -> S] : k \in 0..n}

Occurrences(s, x) == Cardinality({i \in 1..Len(s) : s[i] = x})

FirstIndex(s, x) == CHOOSE i \in 1..Len(s) : s[i] = x /\ \A j \in 1..(i - 1) : s[j] # x

\* str.endswith
EndsWith(s, suffix) ==
    /\ Len(s) >= Len(suffix)
    /\ SubSeq(s, Len(s) - Len(suffix) + 1, Len(s)) = suffix

(***************************************************************************)
(* start_telkom_crawl: configuration and the web.                          *)
(***************************************************************************)
allowed_domain == "telkomuniversity.ac.id"

LookalikeHost == "eviltelkomuniversity.ac.id"

OtherHost == "example.org"

\* The characters of a host name (TLC strings cannot be indexed)
DomainChars ==
    <<"t","e","l","k","o","m","u","n","i","v","e","r","s","i","t","y",
      ".","a","c",".","i","d">>

Chars(h) ==
    CASE h = allowed_domain -> DomainChars
      [] h = LookalikeHost -> <<"e","v","i","l">> \o DomainChars
      [] h = OtherHost -> <<"e","x","a","m","p","l","e",".","o","r","g">>

start_url == [netloc |-> allowed_domain, path |-> "/"]

max_pages == MaxPages

\* The href values an anchor of a crawled page can carry.
Hrefs ==
    {[abs |-> FALSE, netloc |-> "", path |-> "/a"]}
    \cup {[abs |-> TRUE, netloc |-> h, path |-> "/"] :
            h \in {LookalikeHost, OtherHost}}

\* The pages a GET can return: the hrefs of soup.find_all('a', href=True).
Pages == SeqsUpTo(Hrefs, MaxLinks)

\* urllib.parse.urljoin for an absolute href and for an absolute-path reference
urljoin(base, href) ==
    IF href.abs THEN [netloc |-> href.netloc, path |-> href.path]
    ELSE [netloc |-> base.netloc, path |-> href.path]

\* The condition of line 76, without the visited test
DomainTestNoVisited(link, visited) == EndsWith(Chars(link.netloc), Chars(allowed_domain))

\* The condition of line 76
Eligible(link, visited) ==
    EndsWith(Chars(link.netloc), Chars(allowed_domain)) /\ link \notin visited

\* Lines 74-77: the links appended for a page fetched at current_url
RECURSIVE NewLinks(_, _, _)
NewLinks(current_url, page, visited) ==
    IF page = <<>> THEN <<>>
    ELSE LET absolute_link == urljoin(current_url, Head(page))
         IN  (IF Eligible(absolute_link, visited) THEN <<absolute_link>> ELSE <<>>)
             \o NewLinks(current_url, Tail(page), visited)

\* pop() instead of pop(0)
PopLast(q) == [url |-> q[Len(q)], rest |-> SubSeq(q, 1, Len(q) - 1)]

\* A read of the head that leaves it in the queue
PopPeek(q) == [url |-> Head(q), rest |-> q]

\* Line 63: urls_to_visit.pop(0)
Pop(q) == [url |-> Head(q), rest |-> Tail(q)]

\* A visited test that never fires
NeverVisited(u, visited) == FALSE

\* Line 64: current_url in visited_urls
AlreadyVisited(u, visited) == u \in visited

\* pages_crawled <= max_pages
LoopGuardOffByOne(q, n) == q # <<>> /\ n <= max_pages

\* Line 62: the while condition
LoopGuard(q, n) == q # <<>> /\ n < max_pages

\* An except clause that forgets to mark the URL
VisitedAfterFailureUnmarked(visited, u) == visited

\* Line 88: visited_urls.add(current_url) in the except clause
VisitedAfterFailure(visited, u) == visited \cup {u}

(***************************************************************************)
(* create_text_chunks.  A text is a sequence of characters; " " is the     *)
(* whitespace character, every other character belongs to a word.         *)
(***************************************************************************)
DefaultChunkSize == 400

DefaultOverlap == 50

IsWordStart(s, i) == s[i] # " " /\ (i = 1 \/ s[i - 1] = " ")

\* Last character of the word that starts at i
WordEnd(s, i) ==
    CHOOSE j \in i..Len(s) :
        /\ \A k \in i..j : s[k] # " "
        /\ j = Len(s) \/ s[j + 1] = " "

\* The words of s that start at a position in lo..hi, in order
RECURSIVE SplitRange(_, _, _)
SplitRange(s, lo, hi) ==
    IF lo > hi THEN <<>>
    ELSE IF lo = hi
         THEN (IF IsWordStart(s, lo) THEN <<SubSeq(s, lo, WordEnd(s, lo))>> ELSE <<>>)
         ELSE LET mid == (lo + hi) \div 2
              IN  SplitRange(s, lo, mid) \o SplitRange(s, mid + 1, hi)

\* Line 368: str.split() with no argument
Split(s) == SplitRange(s, 1, Len(s))

RECURSIVE JoinRange(_, _, _)
JoinRange(ws, lo, hi) ==
    IF lo > hi THEN <<>>
    ELSE IF lo = hi THEN ws[lo]
         ELSE LET mid == (lo + hi) \div 2
              IN  JoinRange(ws, lo, mid) \o <<" ">> \o JoinRange(ws, mid + 1, hi)

\* Line 375: ' '.join
Join(ws) == JoinRange(ws, 1, Len(ws))

\* Line 375: the list slice ws[s:e] with Python's treatment of negative and
\* out-of-range indices
PySlice(ws, s, e) ==
    LET n == Len(ws)
        norm(i) == IF i < 0 THEN Max(i + n, 0) ELSE Min(i, n)
    IN  IF norm(s) < norm(e) THEN SubSeq(ws, norm(s) + 1, norm(e)) ELSE <<>>

\* A test for "no words" that never fires
NoWordsNever(ws) == FALSE

\* Line 369: not words
NoWords(ws) == ws = <<>>

\* Line 370: len(words) <= chunk_size
FitsOneChunk(ws, size) == Len(ws) <= size

\* min(start + chunk_size - 1, len(words))
WindowEndShort(s, size, n) == Min(s + size - 1, n)

\* Line 374: end = min(start + chunk_size, len(words))
WindowEnd(s, size, n) == Min(s + size, n)

\* start = end
NextStartNoOverlap(end, ov) == end

\* start = end + overlap
NextStartPlus(end, ov) == end + ov

\* Line 379: start = end - overlap
NextStart(end, ov) == end - ov

\* A loop without the break
BreakNever(end, n) == FALSE

\* Line 378: if end == len(words): break
BreakAfter(end, n) == end = n

\* Line 376: the chunk record of one window
WindowChunk(id, ws, s, e) ==
    [chunk_id |-> id, text |-> Join(PySlice(ws, s, e)), word_count |-> e - s,
     start_position |-> s, end_position |-> e]

\* Line 370: the record returned for a short text
SingleChunk(text, ws) == [chunk_id |-> 0, text |-> text, word_count |-> Len(ws)]

\* The texts given to create_text_chunks
Contents == SeqsUpTo({"a", " "}, MaxChars)

\* A document of 450 one-letter words
ScenarioDoc == [i \in 1..899 |-> IF i % 2 = 1 THEN "a" ELSE " "]

CrawlIdle ==
    /\ bucket_name = ""
    /\ crawl_pc = "idle"
    /\ urls_to_visit = <<>>
    /\ visited_urls = {}
    /\ pages_crawled = 0
    /\ response = [status |-> 0]
    /\ fetch_log = <<>>
    /\ enqueued = <<>>
    /\ blobs = {}
    /\ failures = 0
    /\ delayed = FALSE

ChunkIdle ==
    /\ content = <<>>
    /\ chunk_size = 0
    /\ overlap = 0
    /\ words = <<>>
    /\ chunks = <<>>
    /\ start = 0
    /\ chunk_id = 0
    /\ chunk_pc = "idle"

ExtractIdle ==
    /\ doc = <<>>
    /\ content_type = ""
    /\ cleaned_content = <<>>
    /\ profile = ""
    /\ structured_data = {}
    /\ text_chunks = <<>>
    /\ extract_pc = "idle"

CleanIdle ==
    /\ clean_arg = <<>>
    /\ clean_once = <<>>
    /\ clean_twice = <<>>
    /\ clean_pc = "idle"

EmbedIdle ==
    /\ rows = <<>>
    /\ batch_idx = 0
    /\ valid_rows = <<>>
    /\ attempt = 0
    /\ all_embeddings = <<>>
    /\ failed_chunks = <<>>
    /\ send_log = <<>>
    /\ embed_response = [status |-> 0]
    /\ embed_pc = "idle"

\* Lines 45-60
CrawlInit ==
    /\ bucket_name \in {"", "bucket"}
    /\ crawl_pc = "start"
    /\ urls_to_visit = <<start_url>>
    /\ visited_urls = {}
    /\ pages_crawled = 0
    /\ response = [status |-> 0]
    /\ fetch_log = <<>>
    /\ enqueued = <<start_url>>
    /\ blobs = {}
    /\ failures = 0
    /\ delayed = FALSE

Init == CrawlInit /\ ChunkIdle /\ ExtractIdle /\ CleanIdle /\ EmbedIdle

\* Lines 47-49: BUCKET_NAME unset
CrawlConfigError ==
    /\ crawl_pc = "start"
    /\ bucket_name = ""
    /\ crawl_pc' = "done"
    /\ response' = [status |-> 500]
    /\ UNCHANGED <<bucket_name, urls_to_visit, visited_urls, pages_crawled,
                   fetch_log, enqueued, blobs, failures, delayed>>
    /\ UNCHANGED notCrawlVars

\* Lines 47-60: configuration present, the loop is entered
CrawlStart ==
    /\ crawl_pc = "start"
    /\ bucket_name # ""
    /\ crawl_pc' = "loop"
    /\ UNCHANGED <<bucket_name, urls_to_visit, visited_urls, pages_crawled,
                   response, fetch_log, enqueued, blobs, failures, delayed>>
    /\ UNCHANGED notCrawlVars

\* Lines 62-65: the popped URL is already visited
CrawlSkip ==
    /\ crawl_pc = "loop"
    /\ LoopGuard(urls_to_visit, pages_crawled)
    /\ LET p == Pop(urls_to_visit)
       IN  /\ AlreadyVisited(p.url, visited_urls)
           /\ urls_to_visit' = p.rest
    /\ UNCHANGED <<bucket_name, crawl_pc, visited_urls, pages_crawled, response,
                   fetch_log, enqueued, blobs, failures, delayed>>
    /\ UNCHANGED notCrawlVars

\* Lines 62-85: the GET succeeds and the blob is uploaded
FetchOk ==
    /\ crawl_pc = "loop"
    /\ LoopGuard(urls_to_visit, pages_crawled)
    /\ \E page \in Pages :
         LET p == Pop(urls_to_visit)
             visited == visited_urls \cup {p.url}
             links == NewLinks(p.url, page, visited)
         IN  /\ ~AlreadyVisited(p.url, visited_urls)
             /\ fetch_log' = Append(fetch_log, [url |-> p.url, ok |-> TRUE])
             /\ visited_urls' = visited
             /\ pages_crawled' = pages_crawled + 1
             /\ urls_to_visit' = p.rest \o links
             /\ enqueued' = enqueued \o links
             /\ blobs' = blobs \cup {p.url}
    /\ UNCHANGED <<bucket_name, crawl_pc, response, failures>>
    /\ delayed' = TRUE
    /\ UNCHANGED notCrawlVars

\* Lines 62-70, 86-88: requests.get or raise_for_status raises RequestException
FetchFail ==
    /\ crawl_pc = "loop"
    /\ LoopGuard(urls_to_visit, pages_crawled)
    /\ failures < MaxFailures
    /\ LET p == Pop(urls_to_visit)
       IN  /\ ~AlreadyVisited(p.url, visited_urls)
           /\ fetch_log' = Append(fetch_log, [url |-> p.url, ok |-> FALSE])
           /\ visited_urls' = VisitedAfterFailure(visited_urls, p.url)
           /\ urls_to_visit' = p.rest
    /\ failures' = failures + 1
    /\ UNCHANGED <<bucket_name, crawl_pc, pages_crawled, response, enqueued, blobs>>
    /\ delayed' = FALSE
    /\ UNCHANGED notCrawlVars

\* Lines 62-84, 86-88: the GET succeeds, upload_from_string raises a
\* RequestException (transport error), which the except clause catches
UploadFailCaught ==
    /\ crawl_pc = "loop"
    /\ LoopGuard(urls_to_visit, pages_crawled)
    /\ failures < MaxFailures
    /\ \E page \in Pages :
         LET p == Pop(urls_to_visit)
             visited == visited_urls \cup {p.url}
             links == NewLinks(p.url, page, visited)
         IN  /\ ~AlreadyVisited(p.url, visited_urls)
             /\ fetch_log' = Append(fetch_log, [url |-> p.url, ok |-> TRUE])
             /\ visited_urls' = VisitedAfterFailure(visited, p.url)
             /\ pages_crawled' = pages_crawled + 1
             /\ urls_to_visit' = p.rest \o links
             /\ enqueued' = enqueued \o links
    /\ failures' = failures + 1
    /\ UNCHANGED <<bucket_name, crawl_pc, response, blobs>>
    /\ delayed' = FALSE
    /\ UNCHANGED notCrawlVars

\* Lines 62-84: the GET succeeds, upload_from_string raises an exception that is
\* no RequestException; it leaves the handler
UploadFailAbort ==
    /\ crawl_pc = "loop"
    /\ LoopGuard(urls_to_visit, pages_crawled)
    /\ failures < MaxFailures
    /\ \E page \in Pages :
         LET p == Pop(urls_to_visit)
             visited == visited_urls \cup {p.url}
             links == NewLinks(p.url, page, visited)
         IN  /\ ~AlreadyVisited(p.url, visited_urls)
             /\ fetch_log' = Append(fetch_log, [url |-> p.url, ok |-> TRUE])
             /\ visited_urls' = visited
             /\ pages_crawled' = pages_crawled + 1
             /\ urls_to_visit' = p.rest \o links
             /\ enqueued' = enqueued \o links
    /\ failures' = failures + 1
    /\ crawl_pc' = "aborted"
    /\ response' = [status |-> 500]
    /\ UNCHANGED <<bucket_name, blobs>>
    /\ delayed' = FALSE
    /\ UNCHANGED notCrawlVars

\* Lines 90-91: the while condition is false
CrawlFinish ==
    /\ crawl_pc = "loop"
    /\ ~LoopGuard(urls_to_visit, pages_crawled)
    /\ crawl_pc' = "done"
    /\ response' = [status |-> 200, pages_crawled |-> pages_crawled,
                    total_urls_found |-> Cardinality(visited_urls)]
    /\ UNCHANGED <<bucket_name, urls_to_visit, visited_urls, pages_crawled,
                   fetch_log, enqueued, blobs, failures, delayed>>
    /\ UNCHANGED notCrawlVars

Next ==
    \/ CrawlConfigError
    \/ CrawlStart
    \/ CrawlSkip
    \/ FetchOk
    \/ FetchFail
    \/ UploadFailCaught
    \/ UploadFailAbort
    \/ CrawlFinish

Spec == Init /\ [][Next]_vars

\* The handler is sequential code and every call it makes returns or raises:
\* a crawl that can take a step takes it.
SpecFair == Init /\ [][Next]_vars /\ WF_vars(Next)

\* Line 366: the call, with its arguments
ChunkInit ==
    /\ \/ /\ content \in Contents
          /\ chunk_size \in 1..MaxChunkSize
          /\ overlap \in (0 - 1)..MaxOverlap
       \/ /\ content = ScenarioDoc
          /\ chunk_size = DefaultChunkSize
          /\ overlap = DefaultOverlap
    /\ words = <<>>
    /\ chunks = <<>>
    /\ start = 0
    /\ chunk_id = 0
    /\ chunk_pc = "call"
    /\ CrawlIdle /\ ExtractIdle /\ CleanIdle /\ EmbedIdle

\* Lines 367-369: no words, return []
ChunkReturnEmpty ==
    /\ chunk_pc = "call"
    /\ NoWords(Split(content))
    /\ words' = Split(content)
    /\ chunks' = <<>>
    /\ chunk_pc' = "done"
    /\ UNCHANGED <<content, chunk_size, overlap, start, chunk_id>>
    /\ UNCHANGED notChunkVars

\* Lines 367-370: at most chunk_size words, return the single chunk
ChunkReturnSingle ==
    /\ chunk_pc = "call"
    /\ ~NoWords(Split(content))
    /\ FitsOneChunk(Split(content), chunk_size)
    /\ words' = Split(content)
    /\ chunks' = <<SingleChunk(content, Split(content))>>
    /\ chunk_pc' = "done"
    /\ UNCHANGED <<content, chunk_size, overlap, start, chunk_id>>
    /\ UNCHANGED notChunkVars

\* Lines 367-372: more than chunk_size words, the loop is entered
ChunkEnterLoop ==
    /\ chunk_pc = "call"
    /\ ~NoWords(Split(content))
    /\ ~FitsOneChunk(Split(content), chunk_size)
    /\ words' = Split(content)
    /\ chunks' = <<>>
    /\ start' = 0
    /\ chunk_id' = 0
    /\ chunk_pc' = "loop"
    /\ UNCHANGED <<content, chunk_size, overlap>>
    /\ UNCHANGED notChunkVars

\* Lines 373-379: one iteration of the while loop
ChunkIterate ==
    /\ chunk_pc = "loop"
    /\ start < Len(words)
    /\ Len(chunks) < MaxChunks
    /\ LET end == WindowEnd(start, chunk_size, Len(words))
       IN  /\ chunks' = Append(chunks, WindowChunk(chunk_id, words, start, end))
           /\ chunk_id' = chunk_id + 1
           /\ IF BreakAfter(end, Len(words))
              THEN chunk_pc' = "done" /\ start' = start
              ELSE chunk_pc' = "loop" /\ start' = NextStart(end, overlap)
    /\ UNCHANGED <<content, chunk_size, overlap, words>>
    /\ UNCHANGED notChunkVars

\* Lines 373, 380: the while condition is false
ChunkLoopExit ==
    /\ chunk_pc = "loop"
    /\ ~(start < Len(words))
    /\ chunk_pc' = "done"
    /\ UNCHANGED <<content, chunk_size, overlap, words, chunks, start, chunk_id>>
    /\ UNCHANGED notChunkVars

ChunkNext ==
    \/ ChunkReturnEmpty
    \/ ChunkReturnSingle
    \/ ChunkEnterLoop
    \/ ChunkIterate
    \/ ChunkLoopExit

SpecChunks == ChunkInit /\ [][ChunkNext]_vars

\* create_text_chunks is straight-line sequential code: a call that can take a
\* step takes it.
SpecChunksFair == ChunkInit /\ [][ChunkNext]_vars /\ WF_vars(ChunkNext)

(***************************************************************************)
(* Texts of the cleaning pipeline.  A text is a sequence of characters,    *)
(* each a one-character string.                                            *)
(***************************************************************************)
\* The characters Python's \s matches among those the model uses
Whitespace == {" ", "\n", "\t"}

IsSpace(c) == c \in Whitespace

UpperLetters ==
    <<"A", "B", "C", "D", "E", "F", "G", "H", "I", "J", "K", "L", "M", "N",
      "O", "P", "Q", "R", "S", "T", "U", "V", "W", "X", "Y", "Z">>

LowerLetters ==
    <<"a", "b", "c", "d", "e", "f", "g", "h", "i", "j", "k", "l", "m", "n",
      "o", "p", "q", "r", "s", "t", "u", "v", "w", "x", "y", "z">>

Digits == <<"0", "1", "2", "3", "4", "5", "6", "7", "8", "9">>

\* [A-Za-z0-9+/=]
Base64Chars == Range(UpperLetters) \cup Range(LowerLetters) \cup Range(Digits) \cup {"+", "/", "="}

\* The character at position i, or "" outside the text
At(t, i) == IF i \in 1..Len(t) THEN t[i] ELSE ""

\* The literal lit stands at position i of t
LiteralAt(t, i, lit) ==
    /\ i >= 1
    /\ i + Len(lit) - 1 <= Len(t)
    /\ SubSeq(t, i, i + Len(lit) - 1) = lit

\* x in t: lit occurs somewhere in t
Contains(t, lit) == \E i \in 1..(Len(t) - Len(lit) + 1) : LiteralAt(t, i, lit)

\* The position before the first position of stops, or the end of the text
BeforeFirst(t, i, stops) ==
    IF stops = {} THEN Max(Len(t), i - 1)
    ELSE (CHOOSE j \in stops : \A k \in stops : j <= k) - 1

\* Last position of the longest run of characters of class that starts at i
\* (i - 1 when the run is empty): a greedy character-class loop
RunEnd(t, i, class) == BeforeFirst(t, i, {j \in i..Len(t) : t[j] \notin class})

\* The same for a negated class [^...]
RunEndNot(t, i, class) == BeforeFirst(t, i, {j \in i..Len(t) : t[j] \in class})

\* str.lower() on one character
LowerChar(c) ==
    IF \E k \in 1..Len(UpperLetters) : UpperLetters[k] = c
    THEN LowerLetters[CHOOSE k \in 1..Len(UpperLetters) : UpperLetters[k] = c]
    ELSE c

\* str.lower()
Lower(t) == [i \in 1..Len(t) |-> LowerChar(t[i])]

\* str.strip()
Strip(t) ==
    LET n == Len(t)
        lead == CHOOSE j \in 0..n :
                    /\ \A k \in 1..j : IsSpace(t[k])
                    /\ j = n \/ ~IsSpace(t[j + 1])
        trail == CHOOSE j \in 0..n :
                     /\ \A k \in (n - j + 1)..n : IsSpace(t[k])
                     /\ j = n \/ ~IsSpace(t[n - j])
    IN  IF lead = n THEN <<>> ELSE SubSeq(t, lead + 1, n - trail)

\* ^ under re.MULTILINE: start of the text or just after a newline
AtLineStart(t, i) == i = 1 \/ At(t, i - 1) = "\n"

(***************************************************************************)
(* clean_markdown_content.  Each regular expression is modelled by the end *)
(* position of its match at a given start (0: no match there) and by the   *)
(* text that replaces the match; re.sub scans left to right and resumes    *)
(* after each match.                                                       *)
(***************************************************************************)
DataUriPrefix == <<"d", "a", "t", "a", ":", "i", "m", "a", "g", "e", "/">>

Base64Marker == <<";", "b", "a", "s", "e", "6", "4", ",">>

\* Line 309: the replacement literal as the source file spells it
BulletText == <<"â", "€", "¢", " ">>

\* Line 302: data:image/[^;]+;base64,[A-Za-z0-9+/=]+
DataUriEnd(t, i) ==
    LET a == i + Len(DataUriPrefix)
        b == RunEndNot(t, a, {";"})
        d == b + 1 + Len(Base64Marker)
        e == RunEnd(t, d, Base64Chars)
    IN  IF /\ LiteralAt(t, i, DataUriPrefix)
           /\ b >= a
           /\ LiteralAt(t, b + 1, Base64Marker)
           /\ e >= d
        THEN e ELSE 0

\* Position of the "]" that closes the [^\]] run starting at i
BracketClose(t, i) == RunEndNot(t, i, {"]"}) + 1

\* Position of the ")" that closes the [^)] run starting at i
ParenClose(t, i) == RunEndNot(t, i, {")"}) + 1

\* Line 303: !\[([^\]]*)\]\([^)]+\)
ImageEnd(t, i) ==
    LET j == BracketClose(t, i + 2)
        k == ParenClose(t, j + 2)
    IN  IF /\ At(t, i) = "!" /\ At(t, i + 1) = "["
           /\ At(t, j) = "]" /\ At(t, j + 1) = "("
           /\ k > j + 2
           /\ At(t, k) = ")"
        THEN k ELSE 0

\* Line 304: \n\s*\n\s*\n+ matches from a newline to the last newline of the
\* whitespace run, when the run holds at least three newlines
BlankLinesEnd(t, i) ==
    LET r == RunEnd(t, i, Whitespace)
        nl == {j \in i..r : t[j] = "\n"}
    IN  IF At(t, i) = "\n" /\ Cardinality(nl) >= 3
        THEN CHOOSE j \in nl : \A k \in nl : j >= k
        ELSE 0

\* Line 305: \s+
SpacesEnd(t, i) == IF IsSpace(At(t, i)) THEN RunEnd(t, i, Whitespace) ELSE 0

\* Line 306: ^#{1,6}\s*
HeadingEnd(t, i) ==
    LET h == Min(RunEnd(t, i, {"#"}), i + 5)
    IN  IF AtLineStart(t, i) /\ At(t, i) = "#"
        THEN RunEnd(t, h + 1, Whitespace)
        ELSE 0

\* Line 307: \[([^\]]+)\]\([^)]+\)
LinkEnd(t, i) ==
    LET j == BracketClose(t, i + 1)
        k == ParenClose(t, j + 2)
    IN  IF /\ At(t, i) = "["
           /\ j > i + 1
           /\ At(t, j) = "]" /\ At(t, j + 1) = "("
           /\ k > j + 2
           /\ At(t, k) = ")"
        THEN k ELSE 0

\* End of the run of "*" that starts at i
StarsEnd(t, i) == RunEnd(t, i, {"*"})

\* Line 308: \*+([^*]+)\*+
EmphasisEnd(t, i) ==
    LET a == StarsEnd(t, i)
        b == RunEndNot(t, a + 1, {"*"})
    IN  IF At(t, i) = "*" /\ b > a /\ At(t, b + 1) = "*"
        THEN StarsEnd(t, b + 1)
        ELSE 0

\* Line 309: ^\s*[\*\-\+]\s*
BulletEnd(t, i) ==
    LET s == RunEnd(t, i, Whitespace)
    IN  IF AtLineStart(t, i) /\ At(t, s + 1) \in {"*", "-", "+"}
        THEN RunEnd(t, s + 2, Whitespace)
        ELSE 0

\* End of the match of the pattern of the given source line at position i
MatchEnd(line, t, i) ==
    CASE line = 302 -> DataUriEnd(t, i)
      [] line = 303 -> ImageEnd(t, i)
      [] line = 304 -> BlankLinesEnd(t, i)
      [] line = 305 -> SpacesEnd(t, i)
      [] line = 306 -> HeadingEnd(t, i)
      [] line = 307 -> LinkEnd(t, i)
      [] line = 308 -> EmphasisEnd(t, i)
      [] line = 309 -> BulletEnd(t, i)

\* The text that replaces the match i..e of the pattern of the given line
Replacement(line, t, i, e) ==
    CASE line = 302 -> <<>>
      [] line = 303 -> SubSeq(t, i + 2, BracketClose(t, i + 2) - 1)
      [] line = 304 -> <<"\n", "\n">>
      [] line = 305 -> <<" ">>
      [] line = 306 -> <<>>
      [] line = 307 -> SubSeq(t, i + 1, BracketClose(t, i + 1) - 1)
      [] line = 308 -> SubSeq(t, StarsEnd(t, i) + 1,
                              RunEndNot(t, StarsEnd(t, i) + 1, {"*"}))
      [] line = 309 -> BulletText

\* re.sub from position i on: the leftmost match is replaced and the scan
\* resumes after it; a character no match starts at is copied
RECURSIVE ReSubFrom(_, _, _)
ReSubFrom(line, t, i) ==
    IF i > Len(t) THEN <<>>
    ELSE LET e == MatchEnd(line, t, i)
         IN  IF e >= i
             THEN Replacement(line, t, i, e) \o ReSubFrom(line, t, e + 1)
             ELSE <<t[i]>> \o ReSubFrom(line, t, i + 1)

ReSub(line, t) == ReSubFrom(line, t, 1)

\* Lines 301-310
clean_markdown_content(c) ==
    Strip(ReSub(309, ReSub(308, ReSub(307, ReSub(306,
          ReSub(305, ReSub(304, ReSub(303, ReSub(302, c)))))))))

(***************************************************************************)
(* identify_content_type and extract_telkom_data.                          *)
(***************************************************************************)
KwJalurSeleksi ==
    <<"j", "a", "l", "u", "r", " ", "s", "e", "l", "e", "k", "s", "i">>

KwProgramStudi ==
    <<"p", "r", "o", "g", "r", "a", "m", " ", "s", "t", "u", "d", "i">>

KwJurusan == <<"j", "u", "r", "u", "s", "a", "n">>

KwFakultas == <<"f", "a", "k", "u", "l", "t", "a", "s">>

KwBiaya == <<"b", "i", "a", "y", "a">>

KwUkt == <<"u", "k", "t">>

KwBeasiswa == <<"b", "e", "a", "s", "i", "s", "w", "a">>

KwKip == <<"k", "i", "p">>

KwPendaftaran == <<"p", "e", "n", "d", "a", "f", "t", "a", "r", "a", "n">>

KwDaftar == <<"d", "a", "f", "t", "a", "r">>

KwFasilitas == <<"f", "a", "s", "i", "l", "i", "t", "a", "s">>

KwKampus == <<"k", "a", "m", "p", "u", "s">>

KwAlumni == <<"a", "l", "u", "m", "n", "i">>

KwLulusan == <<"l", "u", "l", "u", "s", "a", "n">>

\* The chain with the fee rule and the scholarship rule exchanged
IdentifyScholarshipBeforeFee(c) ==
    LET content_lower == Lower(c)
        has(k) == Contains(content_lower, k)
    IN  IF has(KwJalurSeleksi) THEN "admission_pathway"
        ELSE IF has(KwProgramStudi) \/ has(KwJurusan) THEN "academic_program"
        ELSE IF has(KwFakultas) THEN "faculty_info"
        ELSE IF has(KwBeasiswa) \/ has(KwKip) THEN "scholarship"
        ELSE IF has(KwBiaya) \/ has(KwUkt) THEN "fee_information"
        ELSE IF has(KwPendaftaran) \/ has(KwDaftar) THEN "registration"
        ELSE IF has(KwFasilitas) \/ has(KwKampus) THEN "facilities"
        ELSE IF has(KwAlumni) \/ has(KwLulusan) THEN "alumni_info"
        ELSE "general_info"

\* The chain without the faculty rule
IdentifyWithoutFacultyRule(c) ==
    LET content_lower == Lower(c)
        has(k) == Contains(content_lower, k)
    IN  IF has(KwJalurSeleksi) THEN "admission_pathway"
        ELSE IF has(KwProgramStudi) \/ has(KwJurusan) THEN "academic_program"
        ELSE IF has(KwBiaya) \/ has(KwUkt) THEN "fee_information"
        ELSE IF has(KwBeasiswa) \/ has(KwKip) THEN "scholarship"
        ELSE IF has(KwPendaftaran) \/ has(KwDaftar) THEN "registration"
        ELSE IF has(KwFasilitas) \/ has(KwKampus) THEN "facilities"
        ELSE IF has(KwAlumni) \/ has(KwLulusan) THEN "alumni_info"
        ELSE "general_info"

\* Lines 312-322
identify_content_type(c) ==
    LET content_lower == Lower(c)
        has(k) == Contains(content_lower, k)
    IN  IF has(KwJalurSeleksi) THEN "admission_pathway"
        ELSE IF has(KwProgramStudi) \/ has(KwJurusan) THEN "academic_program"
        ELSE IF has(KwFakultas) THEN "faculty_info"
        ELSE IF has(KwBiaya) \/ has(KwUkt) THEN "fee_information"
        ELSE IF has(KwBeasiswa) \/ has(KwKip) THEN "scholarship"
        ELSE IF has(KwPendaftaran) \/ has(KwDaftar) THEN "registration"
        ELSE IF has(KwFasilitas) \/ has(KwKampus) THEN "facilities"
        ELSE IF has(KwAlumni) \/ has(KwLulusan) THEN "alumni_info"
        ELSE "general_info"

\* Lines 293-297: the extract_*_info function the if/elif chain selects
ExtractionProfile(cleaned) ==
    LET l == Lower(cleaned)
        has(k) == Contains(l, k)
    IN  IF has(KwJalurSeleksi) THEN "admission"
        ELSE IF has(KwProgramStudi) \/ has(KwFakultas) THEN "program"
        ELSE IF has(KwBiaya) \/ has(KwUkt) THEN "fee"
        ELSE IF has(KwBeasiswa) THEN "scholarship"
        ELSE "general"

\* Lines 325, 333, 343, 349, 355: the keys of the info dict each function returns
ProfileFields(p) ==
    CASE p = "admission" -> {"pathways", "requirements", "deadlines", "contact_info"}
      [] p = "program" -> {"faculties", "programs", "degrees", "specializations"}
      [] p = "fee" -> {"tuition_fees", "other_costs", "payment_methods"}
      [] p = "scholarship" -> {"scholarship_types", "eligibility", "benefits",
                              "application_process"}
      [] p = "general" -> {"key_points", "contacts", "links", "statistics"}

\* Lines 373-379 as a function: the chunks from window start s and id on
RECURSIVE ChunkLoop(_, _, _, _, _)
ChunkLoop(ws, size, ov, s, id) ==
    IF ~(s < Len(ws)) THEN <<>>
    ELSE LET end == WindowEnd(s, size, Len(ws))
         IN  IF BreakAfter(end, Len(ws))
             THEN <<WindowChunk(id, ws, s, end)>>
             ELSE <<WindowChunk(id, ws, s, end)>>
                  \o ChunkLoop(ws, size, ov, NextStart(end, ov), id + 1)

\* Lines 366-380 as a function, for calls that return
create_text_chunks(text, size, ov) ==
    LET ws == Split(text)
    IN  IF NoWords(ws) THEN <<>>
        ELSE IF FitsOneChunk(ws, size) THEN <<SingleChunk(text, ws)>>
        ELSE ChunkLoop(ws, size, ov, 0, 0)

\* The fragments the documents given to extract_telkom_data are built from:
\* the keywords of the rules, in other letter case, broken over two lines or
\* carrying markup, and filler
Pieces ==
    {<<"j", "a", "l", "u", "r", " ", "s", "e", "l", "e", "k", "s", "i">>,
     <<"J", "a", "l", "u", "r", " ", "S", "e", "l", "e", "k", "s", "i">>,
     <<"j", "a", "l", "u", "r", "\n", "s", "e", "l", "e", "k", "s", "i">>,
     <<"p", "r", "o", "g", "r", "a", "m", " ", "s", "t", "u", "d", "i">>,
     <<"p", "r", "o", "g", "r", "a", "m", " ", "*", "s", "t", "u", "d", "i", "*">>,
     <<"j", "u", "r", "u", "s", "a", "n">>,
     <<"f", "a", "k", "u", "l", "t", "a", "s">>,
     <<"b", "i", "a", "y", "a">>,
     <<"u", "k", "t">>,
     <<"b", "e", "a", "s", "i", "s", "w", "a">>,
     <<"k", "i", "p">>,
     <<"p", "e", "n", "d", "a", "f", "t", "a", "r", "a", "n">>,
     <<"f", "a", "s", "i", "l", "i", "t", "a", "s">>,
     <<"k", "a", "m", "p", "u", "s">>,
     <<"a", "l", "u", "m", "n", "i">>,
     <<"l", "u", "l", "u", "s", "a", "n">>,
     <<"i", "n", "f", "o">>,
     <<" ">>,
     <<"#", " ">>,
     <<"\n">>}

RECURSIVE Flatten(_)
Flatten(ps) == IF ps = <<>> THEN <<>> ELSE Head(ps) \o Flatten(Tail(ps))

Docs == {Flatten(ps) : ps \in SeqsUpTo(Pieces, MaxPieces)}

\* Line 290: the call, with its argument
ExtractInit ==
    /\ doc \in Docs
    /\ content_type = ""
    /\ cleaned_content = <<>>
    /\ profile = ""
    /\ structured_data = {}
    /\ text_chunks = <<>>
    /\ extract_pc = "classify"
    /\ CrawlIdle /\ ChunkIdle /\ CleanIdle /\ EmbedIdle

\* Line 291: content_type is computed from the raw content
ExtractClassify ==
    /\ extract_pc = "classify"
    /\ content_type' = identify_content_type(doc)
    /\ extract_pc' = "clean"
    /\ UNCHANGED <<doc, cleaned_content, profile, structured_data, text_chunks>>
    /\ UNCHANGED notExtractVars

\* Line 292
ExtractClean ==
    /\ extract_pc = "clean"
    /\ cleaned_content' = clean_markdown_content(doc)
    /\ extract_pc' = "dispatch"
    /\ UNCHANGED <<doc, content_type, profile, structured_data, text_chunks>>
    /\ UNCHANGED notExtractVars

\* Lines 293-297: the extraction function is chosen from the cleaned content
ExtractDispatch ==
    /\ extract_pc = "dispatch"
    /\ profile' = ExtractionProfile(cleaned_content)
    /\ structured_data' = ProfileFields(ExtractionProfile(cleaned_content))
    /\ extract_pc' = "chunk"
    /\ UNCHANGED <<doc, content_type, cleaned_content, text_chunks>>
    /\ UNCHANGED notExtractVars

\* Lines 298-299
ExtractChunk ==
    /\ extract_pc = "chunk"
    /\ text_chunks' = create_text_chunks(cleaned_content, DefaultChunkSize, DefaultOverlap)
    /\ extract_pc' = "done"
    /\ UNCHANGED <<doc, content_type, cleaned_content, profile, structured_data>>
    /\ UNCHANGED notExtractVars

ExtractNext ==
    \/ ExtractClassify
    \/ ExtractClean
    \/ ExtractDispatch
    \/ ExtractChunk

SpecExtract == ExtractInit /\ [][ExtractNext]_vars

(***************************************************************************)
(* clean_markdown_content applied to a text and then to its own result.    *)
(***************************************************************************)
\* The characters the texts given to the cleaner are built from: heading, list
\* and emphasis markers, link and image brackets, whitespace and a letter
MarkdownChars == {"#", "*", "-", "[", "]", "(", ")", "!", " ", "\n", "a"}

DataUri ==
    <<"d", "a", "t", "a", ":", "i", "m", "a", "g", "e", "/", "p", "n", "g",
      ";", "b", "a", "s", "e", "6", "4", ",", "Q", "U", "J", "D", "+", "/",
      "=">>

\* The arguments: every short markup text, alone or after an inline image
CleanArgs ==
    SeqsUpTo(MarkdownChars, MaxMarkup)
        \cup {DataUri \o t : t \in SeqsUpTo(MarkdownChars, MaxMarkup - 1)}

CleanInit ==
    /\ clean_arg \in CleanArgs
    /\ clean_once = <<>>
    /\ clean_twice = <<>>
    /\ clean_pc = "call"
    /\ CrawlIdle /\ ChunkIdle /\ ExtractIdle /\ EmbedIdle

\* Lines 301-310: the first call
CleanFirst ==
    /\ clean_pc = "call"
    /\ clean_once' = clean_markdown_content(clean_arg)
    /\ clean_pc' = "once"
    /\ UNCHANGED <<clean_arg, clean_twice>>
    /\ UNCHANGED notCleanVars

\* Lines 301-310: the call on the first call's result
CleanSecond ==
    /\ clean_pc = "once"
    /\ clean_twice' = clean_markdown_content(clean_once)
    /\ clean_pc' = "twice"
    /\ UNCHANGED <<clean_arg, clean_once>>
    /\ UNCHANGED notCleanVars

CleanNext ==
    \/ CleanFirst
    \/ CleanSecond

SpecClean == CleanInit /\ [][CleanNext]_vars

(***************************************************************************)
(* generate_embeddings.  A row's text is a key into RowTexts, which gives   *)
(* its characters.                                                         *)
(***************************************************************************)
batch_size == 5

max_retries == 3

\* Line 241: len(text) < 10
MinTextLength == 10

\* Line 242: len(text) > 8000, text[:8000]
TextCap == 8000

\* Line 242: "..."
Ellipsis == <<".", ".", ".">>

TextKeys == {"nine", "cap", "over"}

\* The chunk texts of the rows: nine characters inside whitespace, TextCap
\* characters and TextCap + 1 characters
RowTexts ==
    [k \in TextKeys |->
        CASE k = "nine" -> <<" ">> \o [i \in 1..(MinTextLength - 1) |-> "a"] \o <<"\n">>
          [] k = "cap" -> [i \in 1..TextCap |-> "a"]
          [] k = "over" -> [i \in 1..(TextCap + 1) |-> "a"]]

\* Lines 240-242: the text to embed for a row's text, or the row is skipped
PrepareText(raw) ==
    LET text == Strip(raw)
    IN  IF Len(text) < MinTextLength THEN [skip |-> TRUE, text |-> text]
        ELSE IF Len(text) > TextCap
             THEN [skip |-> FALSE, text |-> SubSeq(text, 1, TextCap) \o Ellipsis]
             ELSE [skip |-> FALSE, text |-> text]

Prepared == [k \in TextKeys |-> PrepareText(RowTexts[k])]

\* Line 235: rows[batch_idx:batch_idx + batch_size]
BatchRows(rs, idx) == SubSeq(rs, idx + 1, Min(idx + batch_size, Len(rs)))

\* Lines 238-244: the rows of a batch that are not skipped, in order
RECURSIVE ValidRows(_)
ValidRows(rs) ==
    IF rs = <<>> THEN <<>>
    ELSE IF Prepared[Head(rs).text].skip THEN ValidRows(Tail(rs))
         ELSE <<Head(rs)>> \o ValidRows(Tail(rs))

\* Lines 238-244: texts_to_embed, as the lengths of its texts
TextLengths(rs) == [i \in 1..Len(rs) |-> Len(Prepared[rs[i].text].text)]

\* Line 259: f"{row['source_file']}_{row['chunk_id']}"
ChunkIds(rs) == [i \in 1..Len(rs) |-> <<rs[i].source_file, rs[i].chunk_id>>]

\* attempt == max_retries
IsLastAttemptOffByOne(a) == a = max_retries

\* Line 258: attempt == max_retries - 1
IsLastAttempt(a) == a = max_retries - 1

\* Line 246: range(max_retries) has a value after a
HasNextAttempt(a) == a + 1 < max_retries

\* Line 236: batch_idx // batch_size + 1
BatchNum(idx) == idx \div batch_size + 1

\* The rows the query returns, ordered by chunk_id
RowLists ==
    UNION {{[i \in 1..n |-> [source_file |-> "page.md", chunk_id |-> i - 1, text |-> f[i]]] :
              f \in [1..n -> TextKeys]} : n \in 0..MaxRows}

\* Line 176: the request arrives
EmbedInit ==
    /\ rows \in RowLists
    /\ batch_idx = 0
    /\ valid_rows = <<>>
    /\ attempt = 0
    /\ all_embeddings = <<>>
    /\ failed_chunks = <<>>
    /\ send_log = <<>>
    /\ embed_response = [status |-> 0]
    /\ embed_pc = "start"
    /\ CrawlIdle /\ ChunkIdle /\ ExtractIdle /\ CleanIdle

\* Lines 186-196: a required environment variable is missing
EmbedConfigError ==
    /\ embed_pc = "start"
    /\ embed_pc' = "done"
    /\ embed_response' = [status |-> 500]
    /\ UNCHANGED <<rows, batch_idx, valid_rows, attempt, all_embeddings, failed_chunks,
                   send_log>>
    /\ UNCHANGED notEmbedVars

\* Lines 198-220, 282-284: a client initialisation or the query raises
EmbedSetupFail ==
    /\ embed_pc = "start"
    /\ embed_pc' = "done"
    /\ embed_response' = [status |-> 500]
    /\ UNCHANGED <<rows, batch_idx, valid_rows, attempt, all_embeddings, failed_chunks,
                   send_log>>
    /\ UNCHANGED notEmbedVars

\* Lines 224-225: the query returned no row
EmbedNoRows ==
    /\ embed_pc = "start"
    /\ rows = <<>>
    /\ embed_pc' = "done"
    /\ embed_response' = [status |-> 200]
    /\ UNCHANGED <<rows, batch_idx, valid_rows, attempt, all_embeddings, failed_chunks,
                   send_log>>
    /\ UNCHANGED notEmbedVars

\* Lines 224-234: rows found, the batch loop is entered
EmbedStart ==
    /\ embed_pc = "start"
    /\ rows # <<>>
    /\ embed_pc' = "batch"
    /\ batch_idx' = 0
    /\ UNCHANGED <<rows, valid_rows, attempt, all_embeddings, failed_chunks, send_log,
                   embed_response>>
    /\ UNCHANGED notEmbedVars

\* Lines 234-245: every row of the batch is skipped, continue
EmbedBatchSkip ==
    /\ embed_pc = "batch"
    /\ batch_idx < Len(rows)
    /\ ValidRows(BatchRows(rows, batch_idx)) = <<>>
    /\ valid_rows' = <<>>
    /\ batch_idx' = batch_idx + batch_size
    /\ UNCHANGED <<rows, attempt, all_embeddings, failed_chunks, send_log,
                   embed_response, embed_pc>>
    /\ UNCHANGED notEmbedVars

\* Lines 234-246: the batch has texts to embed, the retry loop is entered
EmbedBatchBegin ==
    /\ embed_pc = "batch"
    /\ batch_idx < Len(rows)
    /\ ValidRows(BatchRows(rows, batch_idx)) # <<>>
    /\ valid_rows' = ValidRows(BatchRows(rows, batch_idx))
    /\ attempt' = 0
    /\ embed_pc' = "attempt"
    /\ UNCHANGED <<rows, batch_idx, all_embeddings, failed_chunks, send_log,
                   embed_response>>
    /\ UNCHANGED notEmbedVars

\* Lines 247-255, 263: get_embeddings returns, the embeddings are stored, break
EmbedAttemptOk ==
    /\ embed_pc = "attempt"
    /\ send_log' = Append(send_log, [batch |-> BatchNum(batch_idx), attempt |-> attempt,
                                     lengths |-> TextLengths(valid_rows), ok |-> TRUE])
    /\ all_embeddings' = all_embeddings \o ChunkIds(valid_rows)
    /\ batch_idx' = batch_idx + batch_size
    /\ embed_pc' = "batch"
    /\ UNCHANGED <<rows, valid_rows, attempt, failed_chunks, embed_response>>
    /\ UNCHANGED notEmbedVars

\* Lines 247-248, 256-263: get_embeddings raises
EmbedAttemptFail ==
    /\ embed_pc = "attempt"
    /\ send_log' = Append(send_log, [batch |-> BatchNum(batch_idx), attempt |-> attempt,
                                     lengths |-> TextLengths(valid_rows), ok |-> FALSE])
    /\ failed_chunks' = IF IsLastAttempt(attempt)
                        THEN failed_chunks \o ChunkIds(valid_rows)
                        ELSE failed_chunks
    /\ IF HasNextAttempt(attempt)
       THEN /\ attempt' = attempt + 1
            /\ UNCHANGED <<batch_idx, embed_pc>>
       ELSE /\ batch_idx' = batch_idx + batch_size
            /\ embed_pc' = "batch"
            /\ UNCHANGED attempt
    /\ UNCHANGED <<rows, valid_rows, all_embeddings, embed_response>>
    /\ UNCHANGED notEmbedVars

\* Lines 264-265: the loop is over and nothing was embedded
EmbedFinishNone ==
    /\ embed_pc = "batch"
    /\ ~(batch_idx < Len(rows))
    /\ all_embeddings = <<>>
    /\ embed_pc' = "done"
    /\ embed_response' = [status |-> 500, failed_chunks |-> failed_chunks]
    /\ UNCHANGED <<rows, batch_idx, valid_rows, attempt, all_embeddings, failed_chunks,
                   send_log>>
    /\ UNCHANGED notEmbedVars

\* Lines 266-280: the embeddings are uploaded and upserted
EmbedFinishOk ==
    /\ embed_pc = "batch"
    /\ ~(batch_idx < Len(rows))
    /\ all_embeddings # <<>>
    /\ embed_pc' = "done"
    /\ embed_response' = [status |-> 200, embeddings_generated |-> Len(all_embeddings),
                          failed_chunks |-> failed_chunks]
    /\ UNCHANGED <<rows, batch_idx, valid_rows, attempt, all_embeddings, failed_chunks,
                   send_log>>
    /\ UNCHANGED notEmbedVars

\* Lines 266-276, 282-284: the upload or the upsert raises
EmbedFinishFail ==
    /\ embed_pc = "batch"
    /\ ~(batch_idx < Len(rows))
    /\ all_embeddings # <<>>
    /\ embed_pc' = "done"
    /\ embed_response' = [status |-> 500]
    /\ UNCHANGED <<rows, batch_idx, valid_rows, attempt, all_embeddings, failed_chunks,
                   send_log>>
    /\ UNCHANGED notEmbedVars

EmbedNext ==
    \/ EmbedConfigError
    \/ EmbedSetupFail
    \/ EmbedNoRows
    \/ EmbedStart
    \/ EmbedBatchSkip
    \/ EmbedBatchBegin
    \/ EmbedAttemptOk
    \/ EmbedAttemptFail
    \/ EmbedFinishNone
    \/ EmbedFinishOk
    \/ EmbedFinishFail

SpecEmbed == EmbedInit /\ [][EmbedNext]_vars

(***************************************************************************)
(* Properties of the crawl loop.                                           *)
(***************************************************************************)
FetchedUrls == {fetch_log[i].url : i \in 1..Len(fetch_log)}

FetchIndex(u) == CHOOSE i \in 1..Len(fetch_log) : fetch_log[i].url = u

SuccessCount == Cardinality({i \in 1..Len(fetch_log) : fetch_log[i].ok})

\* Number of URLs taken off the queue so far
Dequeued == Len(enqueued) - Len(urls_to_visit)

\* host = allowed_domain, or host ends with "." + allowed_domain
HostInDomain(h) ==
    \/ Chars(h) = Chars(allowed_domain)
    \/ EndsWith(Chars(h), <<".">> \o Chars(allowed_domain))

\* C1: no URL is fetched (GET issued) more than once during one crawl.
C1_NoUrlFetchedTwice ==
    \A i, j \in 1..Len(fetch_log) :
        fetch_log[i].url = fetch_log[j].url => i = j

\* C1 witness: a crawl has ended in which a fetched URL sat in the queue several
\* times and a copy was dequeued without a fetch.
C1_Witness ==
    /\ crawl_pc = "done"
    /\ Dequeued > Len(fetch_log)
    /\ \E u \in FetchedUrls : Occurrences(enqueued, u) >= 2

\* C2 as stated: every URL is appended to urls_to_visit at most once.
C2_EnqueuedAtMostOnce ==
    \A u \in Range(enqueued) : Occurrences(enqueued, u) <= 1

\* C2 amended: a URL is appended to urls_to_visit only while it is not in
\* visited_urls (it is never enqueued again once fetched or failed).
C2_NeverEnqueuedOnceVisited ==
    [][\A i \in (Len(enqueued) + 1)..Len(enqueued') :
          enqueued'[i] \notin visited_urls']_vars

\* C2 witness: two pages were fetched, a not yet visited URL was appended twice
\* and a visited one was not appended again.
C2_Witness ==
    /\ Len(fetch_log) >= 2
    /\ \E u \in Range(enqueued) :
          /\ Occurrences(enqueued, u) >= 2
          /\ u \notin visited_urls
    /\ \E v \in visited_urls : Occurrences(enqueued, v) = 1

\* C3 as stated: every URL enqueued from a page's links, and every non-seed URL
\* fetched, has a host equal to the allowed domain or a subdomain of it.
C3_EnqueuedHostsInDomain ==
    /\ \A i \in 2..Len(enqueued) : HostInDomain(enqueued[i].netloc)
    /\ \A u \in FetchedUrls : u # start_url => HostInDomain(u.netloc)

\* C4 as stated: at most max_pages fetches in total, failed attempts included.
C4_TotalFetchesBounded == Len(fetch_log) <= max_pages

\* C4 amended: at most max_pages successful fetches; pages_crawled counts exactly
\* the successful fetches, and once it reaches max_pages nothing is dequeued.
C4_SuccessfulFetchesBounded ==
    /\ [](SuccessCount <= max_pages /\ pages_crawled = SuccessCount)
    /\ [][pages_crawled = max_pages =>
            urls_to_visit' = urls_to_visit /\ fetch_log' = fetch_log]_vars

\* C4 witness: the crawl stopped at max_pages successful fetches with URLs still
\* queued, after a failed attempt that was not counted.
C4_Witness ==
    /\ crawl_pc = "done"
    /\ pages_crawled = max_pages
    /\ urls_to_visit # <<>>
    /\ Len(fetch_log) > max_pages

\* C5: a failed fetch does not abort the crawl: the URL is marked visited, no
\* link is enqueued and no blob written for it, the loop goes on with the rest of
\* the queue, and the URL is never fetched again.
C5_FetchFailureHandled ==
    /\ [][(Len(fetch_log') = Len(fetch_log) + 1 /\ ~fetch_log'[Len(fetch_log')].ok) =>
            /\ crawl_pc' = "loop"
            /\ fetch_log'[Len(fetch_log')].url \in visited_urls'
            /\ enqueued' = enqueued
            /\ blobs' = blobs
            /\ pages_crawled' = pages_crawled
            /\ urls_to_visit' = Tail(urls_to_visit)]_vars
    /\ [](\A i \in 1..Len(fetch_log) :
            ~fetch_log[i].ok =>
                /\ fetch_log[i].url \notin blobs
                /\ \A j \in 1..Len(fetch_log) :
                      fetch_log[j].url = fetch_log[i].url => j = i)

\* C5 witness: a URL that two different pages linked to failed, its second copy
\* was dequeued without a fetch, and the crawl went on to the end.
C5_Witness ==
    /\ crawl_pc = "done"
    /\ \E i \in 1..Len(fetch_log) :
          /\ ~fetch_log[i].ok
          /\ i >= 3
          /\ Occurrences(enqueued, fetch_log[i].url) >= 2
          /\ Dequeued > Len(fetch_log)

\* C6: strict FIFO: when a URL is fetched, every URL whose first enqueue is
\* earlier has been fetched before it; hence fetches follow first-enqueue order.
C6_FifoOrder ==
    \A k \in 1..Len(fetch_log) :
        \A v \in Range(enqueued) :
            FirstIndex(enqueued, v) < FirstIndex(enqueued, fetch_log[k].url)
                => \E j \in 1..(k - 1) : fetch_log[j].url = v

\* C6 witness: three URLs enqueued in distinct positions were fetched, the last
\* one after a duplicate of an earlier one was skipped.
C6_Witness ==
    /\ Len(fetch_log) >= 3
    /\ Dequeued > Len(fetch_log)
    /\ Cardinality(Range(enqueued)) >= 4

(***************************************************************************)
(* Properties of create_text_chunks.                                       *)
(***************************************************************************)
\* 0 <= overlap < chunk_size
ValidOverlap == 0 <= overlap /\ overlap < chunk_size

\* The call has returned from the loop branch (more than chunk_size words)
ReturnedMany == chunk_pc = "done" /\ Len(words) > chunk_size

\* Word indices of chunk i
ChunkSpan(i) == chunks[i].start_position..(chunks[i].end_position - 1)

\* C7: with more than chunk_size words and 0 <= overlap < chunk_size the chunks
\* cover every word index, carry chunk_ids 0,1,2,... in order, leave no gap
\* between one chunk's range and the next, and every chunk but the last spans
\* exactly chunk_size words.
C7_CoverContiguousFullSize ==
    (ReturnedMany /\ ValidOverlap) =>
        /\ \A w \in 0..(Len(words) - 1) : \E i \in 1..Len(chunks) : w \in ChunkSpan(i)
        /\ \A i \in 1..Len(chunks) : chunks[i].chunk_id = i - 1
        /\ chunks[1].start_position = 0
        /\ \A i \in 1..(Len(chunks) - 1) :
              /\ chunks[i + 1].start_position <= chunks[i].end_position
              /\ chunks[i + 1].start_position > chunks[i].start_position
              /\ chunks[i].end_position - chunks[i].start_position = chunk_size
              /\ Len(Split(chunks[i].text)) = chunk_size

\* C7 witness: a text was cut into at least three chunks with a positive overlap.
C7_Witness ==
    /\ ReturnedMany /\ ValidOverlap
    /\ overlap >= 1
    /\ Len(chunks) >= 3

\* C8: every chunk after the first starts at the previous chunk's end_position
\* minus overlap, so consecutive chunks share exactly overlap words; 450 words
\* with chunk_size 400 and overlap 50 give the two chunks [0,400) and [350,450).
C8_NextStartsAtEndMinusOverlap ==
    (ReturnedMany /\ ValidOverlap) =>
        /\ \A i \in 2..Len(chunks) :
              /\ chunks[i].start_position = chunks[i - 1].end_position - overlap
              /\ Cardinality(ChunkSpan(i - 1) \cap ChunkSpan(i)) = overlap
        /\ (Len(words) = 450 /\ chunk_size = 400 /\ overlap = 50) =>
              /\ Len(chunks) = 2
              /\ chunks[1].start_position = 0 /\ chunks[1].end_position = 400
              /\ chunks[2].start_position = 350 /\ chunks[2].end_position = 450

\* C8 witness: the 450-word document has been chunked with the default arguments.
C8_Witness ==
    /\ chunk_pc = "done"
    /\ Len(words) = 450
    /\ chunk_size = DefaultChunkSize /\ overlap = DefaultOverlap
    /\ Len(chunks) = 2

\* C9: zero words give the empty list; 1..chunk_size words give exactly one
\* chunk, with chunk_id 0, the whole text and word_count = total word count.
C9_EmptyAndSingleChunk ==
    chunk_pc = "done" =>
        /\ Len(Split(content)) = 0 => chunks = <<>>
        /\ (1 <= Len(Split(content)) /\ Len(Split(content)) <= chunk_size) =>
              /\ Len(chunks) = 1
              /\ chunks[1].chunk_id = 0
              /\ chunks[1].text = content
              /\ chunks[1].word_count = Len(Split(content))

\* C9 witness: a text of exactly chunk_size >= 2 words came back as one chunk.
C9_Witness ==
    /\ chunk_pc = "done"
    /\ chunk_size >= 2
    /\ Len(Split(content)) = chunk_size
    /\ Len(chunks) = 1

\* C10: with 0 <= overlap < chunk_size the call terminates, and the loop stops
\* right after the chunk whose end_position is the total word count: that chunk
\* is the last one, and no chunk is empty.
C10_TerminatesAtLastWord ==
    /\ (chunk_pc = "call" /\ ValidOverlap) ~> (chunk_pc = "done")
    /\ []((chunk_pc \in {"loop", "done"} /\ Len(words) > chunk_size /\ ValidOverlap) =>
            /\ \A i \in 1..Len(chunks) :
                  /\ chunks[i].word_count > 0
                  /\ chunks[i].text # <<>>
                  /\ chunks[i].end_position = Len(words) => i = Len(chunks)
            /\ chunk_pc = "done" =>
                  /\ chunks # <<>>
                  /\ chunks[Len(chunks)].end_position = Len(words))

\* C10 witness: the loop has returned after several windows, the last one
\* shorter than chunk_size.
C10_Witness ==
    /\ ReturnedMany /\ ValidOverlap
    /\ Len(chunks) >= 2
    /\ chunks[Len(chunks)].end_position = Len(words)
    /\ chunks[Len(chunks)].word_count < chunk_size

\* The words of chunk i once its leading overlapped words are dropped
KeptWords(i) ==
    LET ws == Split(chunks[i].text)
    IN  IF i = 1 THEN ws ELSE SubSeq(ws, Min(overlap, Len(ws)) + 1, Len(ws))

\* Chunks 1..k in chunk_id order, overlap removed, as one word sequence
RECURSIVE Reconstructed(_)
Reconstructed(k) == IF k = 0 THEN <<>> ELSE Reconstructed(k - 1) \o KeptWords(k)

\* C11 as stated: every returned chunk carries start and end word offsets with
\* word_count = end - start, chunk_ids are 0,1,2,..., and the chunks with their
\* overlap removed give back the original words, for single-chunk documents too.
C11_OffsetsAndReconstruction ==
    (chunk_pc = "done" /\ ValidOverlap) =>
        /\ \A i \in 1..Len(chunks) :
              /\ chunks[i].chunk_id = i - 1
              /\ {"start_position", "end_position"} \subseteq DOMAIN chunks[i]
              /\ chunks[i].word_count = chunks[i].end_position - chunks[i].start_position
        /\ Reconstructed(Len(chunks)) = Split(content)

\* An unguarded overlap: more than chunk_size words and overlap >= chunk_size
UnguardedOverlap == Len(words) > chunk_size /\ overlap >= chunk_size

\* C20: with more than chunk_size words and overlap >= chunk_size the window
\* start never advances (it stays or decreases, possibly below zero), no window
\* ends at the total word count, the loop condition stays true and the break is
\* never taken, so the call never returns.
C20_OverlapNotGuarded ==
    /\ []((chunk_pc \in {"loop", "done"} /\ UnguardedOverlap) =>
            /\ chunk_pc = "loop"
            /\ start <= 0
            /\ start < Len(words)
            /\ ~BreakAfter(WindowEnd(start, chunk_size, Len(words)), Len(words))
            /\ \A i \in 1..Len(chunks) : chunks[i].end_position < Len(words))
    /\ [][(chunk_pc = "loop" /\ UnguardedOverlap) =>
            /\ start' <= start
            /\ chunk_pc' = "loop"]_vars

\* C20 witness: the loop has run to the model's iteration cap with the window
\* start below zero and is still in the loop.
C20_Witness ==
    /\ chunk_pc = "loop"
    /\ UnguardedOverlap
    /\ overlap > chunk_size
    /\ Len(chunks) = MaxChunks
    /\ start < 0

\* This step issued a GET that succeeded, and the page's blob was not written
UploadFailedStep ==
    /\ Len(fetch_log') = Len(fetch_log) + 1
    /\ fetch_log'[Len(fetch_log')].ok
    /\ fetch_log'[Len(fetch_log')].url \notin blobs'

\* C17 as stated, for the crawl: a failed blob upload never aborts the crawl;
\* the loop goes on with the remaining queued URLs.
C17_WriteFailureNeverAborts ==
    [][UploadFailedStep => (crawl_pc' = "loop" /\ response' = response)]_vars

\* C18 as stated: every GET after the first one of a crawl is preceded by the
\* 0.5 s sleep, whether the previous GET succeeded or failed.
C18_DelayBetweenFetches ==
    [][Len(fetch_log') = Len(fetch_log) + 1 => (fetch_log = <<>> \/ delayed)]_vars

(***************************************************************************)
(* Properties of the classifier, the extractor and the cleaner.            *)
(***************************************************************************)
\* The rule table in its priority order: label and keywords of each rule
Rules ==
    <<[label |-> "admission_pathway", keywords |-> {KwJalurSeleksi}],
      [label |-> "academic_program", keywords |-> {KwProgramStudi, KwJurusan}],
      [label |-> "faculty_info", keywords |-> {KwFakultas}],
      [label |-> "fee_information", keywords |-> {KwBiaya, KwUkt}],
      [label |-> "scholarship", keywords |-> {KwBeasiswa, KwKip}],
      [label |-> "registration", keywords |-> {KwPendaftaran, KwDaftar}],
      [label |-> "facilities", keywords |-> {KwFasilitas, KwKampus}],
      [label |-> "alumni_info", keywords |-> {KwAlumni, KwLulusan}]>>

\* The rules with a keyword that occurs in t, whatever the letter case
MatchingRules(t) ==
    LET l == Lower(t)
    IN  {r \in 1..Len(Rules) : \E k \in Rules[r].keywords : Contains(l, k)}

Classified == extract_pc \in {"clean", "dispatch", "chunk", "done"}

\* C12: the label is that of the first rule, in the fixed priority order, with a
\* keyword in the text, and general_info when no rule matches; with keywords of
\* two rules the text never gets the label of the later one.
C12_FirstMatchingRuleWins ==
    Classified =>
        LET m == MatchingRules(doc)
        IN  /\ m = {} => content_type = "general_info"
            /\ \A r \in m : (\A q \in m : r <= q) => content_type = Rules[r].label
            /\ \A r, q \in m : r < q => content_type # Rules[q].label

\* C12 witness: a text with a fee keyword and a scholarship keyword, and no
\* keyword of an earlier rule, was classified as fee_information.
C12_Witness ==
    /\ Classified
    /\ MatchingRules(doc) = {4, 5}
    /\ content_type = "fee_information"

\* The case of C13: 'fakultas' and 'beasiswa' occur and no keyword of the two
\* rules before the faculty rule does
FakultasAndBeasiswa ==
    /\ Classified
    /\ LET l == Lower(doc)
       IN  /\ Contains(l, KwFakultas)
           /\ Contains(l, KwBeasiswa)
           /\ ~Contains(l, KwJalurSeleksi)
           /\ ~Contains(l, KwProgramStudi)
           /\ ~Contains(l, KwJurusan)

\* C13 as stated: such a text is classified as academic_program.
C13_FakultasGivesAcademicProgram ==
    FakultasAndBeasiswa => content_type = "academic_program"

\* C13 amended: such a text is classified as faculty_info, the label of the
\* third rule; it is neither scholarship nor academic_program.
C13_FakultasGivesFacultyInfo ==
    FakultasAndBeasiswa => content_type = "faculty_info"

\* C13 witness: a text with 'fakultas' and 'beasiswa' only has been classified.
C13_Witness ==
    /\ FakultasAndBeasiswa
    /\ MatchingRules(doc) = {3, 5}
    /\ content_type = "faculty_info"

\* The extraction profile that belongs to a content type
ProfileOfType(ct) ==
    CASE ct = "admission_pathway" -> "admission"
      [] ct = "academic_program" -> "program"
      [] ct = "fee_information" -> "fee"
      [] ct = "scholarship" -> "scholarship"
      [] OTHER -> "general"

\* C14 as stated: the profile applied is the one that belongs to the record's
\* content_type, so content_type and the fields of structured_data agree.
C14_DispatchOnContentType ==
    extract_pc \in {"chunk", "done"} =>
        /\ profile = ProfileOfType(content_type)
        /\ structured_data = ProfileFields(ProfileOfType(content_type))

\* C19 as stated: cleaning the cleaner's own output changes nothing.
C19_CleanIdempotent ==
    clean_pc = "twice" => clean_twice = clean_once

(***************************************************************************)
(* Properties of generate_embeddings.                                      *)
(***************************************************************************)
\* The get_embeddings calls made for batch b, as positions of send_log
SendsOf(b) == {i \in 1..Len(send_log) : send_log[i].batch = b}

\* The batches of rows that have a text to embed
BatchesToEmbed ==
    {b \in 1..((Len(rows) + batch_size - 1) \div batch_size) :
        ValidRows(BatchRows(rows, (b - 1) * batch_size)) # <<>>}

\* This step is a failed get_embeddings call that was the batch's last attempt
LastAttemptFailedStep ==
    /\ Len(send_log') = Len(send_log) + 1
    /\ ~send_log'[Len(send_log')].ok
    /\ Cardinality({i \in 1..Len(send_log') :
                       send_log'[i].batch = send_log'[Len(send_log')].batch}) = max_retries

\* C15: a batch is sent at most 3 times and never after a successful attempt;
\* when its third attempt fails the ids of its chunks are appended to
\* failed_chunks and the loop goes on with the next batch, so that at the end
\* every batch with a text to embed has been sent.
C15_BoundedRetryAndContinue ==
    /\ [](\A b \in 1..BatchNum(Len(rows)) :
            /\ Cardinality(SendsOf(b)) <= 3
            /\ \A i, j \in SendsOf(b) : i < j => ~send_log[i].ok)
    /\ [][LastAttemptFailedStep =>
            /\ failed_chunks' = failed_chunks \o ChunkIds(valid_rows)
            /\ embed_pc' = "batch"
            /\ batch_idx' = batch_idx + batch_size
            /\ embed_response' = embed_response
            /\ all_embeddings' = all_embeddings]_vars
    /\ []((embed_pc = "done" /\ send_log # <<>>) =>
            \A b \in BatchesToEmbed : SendsOf(b) # {})

\* C15 witness: the first batch failed three times, its ids are in
\* failed_chunks, and the second batch was then embedded at its second attempt.
C15_Witness ==
    /\ embed_pc = "done"
    /\ embed_response.status = 200
    /\ Cardinality(SendsOf(1)) = 3
    /\ \A i \in SendsOf(1) : ~send_log[i].ok
    /\ Len(failed_chunks) = batch_size
    /\ Cardinality(SendsOf(2)) = 2
    /\ all_embeddings # <<>>

\* C16 as stated: every text passed to get_embeddings has at most 8000
\* characters.
C16_SentTextsWithinCap ==
    \A i \in 1..Len(send_log) :
        \A k \in 1..Len(send_log[i].lengths) : send_log[i].lengths[k] <= 8000

(***************************************************************************)
(* Termination of the crawl loop.                                          *)
(***************************************************************************)
\* Number of GETs that raised
FailedFetches == Cardinality({i \in 1..Len(fetch_log) : ~fetch_log[i].ok})

\* The while loop was entered and has been left
LoopEnded == crawl_pc \in {"done", "aborted"} /\ bucket_name # ""

\* C21: the crawl loop always ends; when every call of every iteration returns
\* or raises the exception the loop handles, it ends with the queue empty or
\* pages_crawled at max_pages; once it has ended pages_crawled <= max_pages and
\* pages_crawled <= len(visited_urls), the difference being the number of
\* failed fetches.
C21_CrawlTerminates ==
    /\ (crawl_pc = "loop") ~> LoopEnded
    /\ [](crawl_pc # "aborted") =>
          ((crawl_pc = "loop") ~>
              (crawl_pc = "done" /\ (urls_to_visit = <<>> \/ pages_crawled = max_pages)))
    /\ [](LoopEnded =>
            /\ pages_crawled <= max_pages
            /\ pages_crawled <= Cardinality(visited_urls)
            /\ Cardinality(visited_urls) - pages_crawled = FailedFetches)

\* C21 witness: a crawl has ended on an empty queue, below max_pages, after
\* fetches that succeeded and fetches that failed.
C21_Witness ==
    /\ crawl_pc = "done"
    /\ urls_to_visit = <<>>
    /\ 1 <= pages_crawled /\ pages_crawled < max_pages
    /\ FailedFetches >= 1
    /\ pages_crawled < Cardinality(visited_urls)

====
